---- MODULE Spec2Model ----
(***************************************************************************)
(* Windowed alignment predictor (crates/diff): StreamNextChunk over an     *)
(* immutable reference `a`, the MatchCollector sink that turns the diff's  *)
(* change regions into matching blocks, and the histogram diff it is fed   *)
(* by.  Offsets are 0-based and ranges half-open, as in the Rust source;   *)
(* a TLA+ sequence s holds the Rust element s[i] at s[i + 1].              *)
(***************************************************************************)
EXTENDS Integers, Sequences, FiniteSets, TLC

VARIABLES
    a,                      \* StreamNextChunk.a
    window_size,            \* StreamNextChunk.window_size
    min_window_threshold,   \* StreamNextChunk.min_window_threshold
    a_window_factor,        \* StreamNextChunk.a_window_factor
    current_b,              \* the caller's observed buffer
    chunk_size,             \* the caller's chunk size
    pc,                     \* caller position: "idle" | "returned"
    call,                   \* locals of the last _next_chunk call
    next,                   \* the slice the last call returned
    steps,                  \* non-empty chunks appended since current_b was empty
    sink,                   \* a MatchCollector
    changes,                \* the change regions handed to `sink` so far
    sink_pc,                \* "collecting" | "finished" | "panicked"
    thr                     \* two concurrent callers of one predictor

vars == <<a, window_size, min_window_threshold, a_window_factor, current_b,
          chunk_size, pc, call, next, steps, sink, changes, sink_pc, thr>>

predictor == <<a, window_size, min_window_threshold, a_window_factor>>
sinkvars == <<sink, changes, sink_pc>>
callervars == <<current_b, chunk_size, pc, call, next, steps>>

----------------------------------------------------------------------------
(* Bounds of the model *)

MaxRefLen == 4      \* longest enumerated reference
MaxObsLen == 4      \* longest enumerated observed sequence
MaxChunk == 3       \* largest chunk size
MaxSide == 3        \* longest side handed to a MatchCollector on its own
MaxConcLen == 2     \* longest reference and observed sequence of concurrent callers

RefTokens == {1, 2}         \* tokens of enumerated references
ObsTokens == {1, 2, 99}     \* tokens of enumerated observed sequences

----------------------------------------------------------------------------
(* Helpers: std::cmp::{min, max}, slices, ranges *)

min(x, y) == IF x <= y THEN x ELSE y
max(x, y) == IF x >= y THEN x ELSE y

\* &s[lo..hi]
Slice(s, lo, hi) == SubSeq(s, lo + 1, hi)

\* Range<u32>
Range(s, e) == [start |-> s, end |-> e]
RangeIsEmpty(r) == r.start >= r.end
RangeLen(r) == IF r.start >= r.end THEN 0 ELSE r.end - r.start

SeqsUpTo(S, n) == UNION {[1..k -> S] : k \in 0..n}

\* let x = v; F(x): v is evaluated once, whatever the number of uses of x
Let(v, F(_)) == CHOOSE r \in {F(x) : x \in {v}} : TRUE

----------------------------------------------------------------------------
(* MatchCollector (sink.rs): change regions in, matching blocks out *)

\* MatchCollector::new
MatchCollectorNew(total_a_len, total_b_len) ==
    [matches |-> <<>>, last_a |-> 0, last_b |-> 0,
     total_a_len |-> total_a_len, total_b_len |-> total_b_len,
     panicked |-> FALSE]

\* Variant: a gap is taken up only when both of its sides are non-empty
PushMatch_BothSides(s, range_a, range_b) ==
    IF s.panicked THEN s
    ELSE IF ~RangeIsEmpty(range_a) /\ ~RangeIsEmpty(range_b)
         THEN IF RangeLen(range_a) = RangeLen(range_b)
              THEN [s EXCEPT !.matches = Append(@, <<range_a, range_b>>)]
              ELSE [s EXCEPT !.panicked = TRUE]
         ELSE s

\* The gap before a change, or after the last one: pushed when either side is
\* non-empty; assert_eq! on the two lengths panics before the push.
PushMatch(s, range_a, range_b) ==
    IF s.panicked THEN s
    ELSE IF ~RangeIsEmpty(range_a) \/ ~RangeIsEmpty(range_b)
         THEN IF RangeLen(range_a) = RangeLen(range_b)
              THEN [s EXCEPT !.matches = Append(@, <<range_a, range_b>>)]
              ELSE [s EXCEPT !.panicked = TRUE]
         ELSE s

\* <MatchCollector as Sink>::process_change
process_change(s, before, after) ==
    LET pushed == PushMatch(s, Range(s.last_a, before.start),
                               Range(s.last_b, after.start))
    IN  IF pushed.panicked THEN pushed
        ELSE [pushed EXCEPT !.last_a = before.end, !.last_b = after.end]

\* <MatchCollector as Sink>::finish
finish(s) ==
    PushMatch(s, Range(s.last_a, s.total_a_len), Range(s.last_b, s.total_b_len))

----------------------------------------------------------------------------
(* The alignment primitive: imara_diff::diff(Algorithm::Histogram, ..), the  *)
(* external crate called at nextchunk.rs:137.  It strips the common prefix  *)
(* and postfix, then splits recursively around the longest common run of    *)
(* the rarest tokens, reporting each differing region to the sink in order. *)
(* The fallback to Myers for tokens occurring more than MAX_CHAIN_LEN times *)
(* is outside the inputs modelled here.                                     *)

MAX_CHAIN_LEN == 63

\* The loops of the crate run to their first mismatch; they are written here in
\* closed form (the length of the longest equal run) instead of step by step.
MinOf(S) == CHOOSE m \in S : \A x \in S : m <= x

\* common_prefix: the number of leading tokens the two sides share
common_prefix(file1, file2) ==
    LET m == min(Len(file1), Len(file2))
    IN  MinOf({k \in 0..m : k = m \/ file1[k + 1] # file2[k + 1]})

\* common_postfix: the number of trailing tokens the two sides share
common_postfix(file1, file2) ==
    LET m == min(Len(file1), Len(file2))
    IN  MinOf({k \in 0..m : k = m \/ file1[Len(file1) - k] # file2[Len(file2) - k]})

\* Histogram::token_occurances after populate(before): ascending positions
token_occurances(before, token) ==
    SelectSeq([i \in 1..Len(before) |-> i - 1], LAMBDA i : before[i + 1] = token)

num_token_occurances(before, token) ==
    Cardinality({i \in 1..Len(before) : before[i] = token})

\* the least occurrence count among the tokens of before[lo..hi) and `occurances`
MinOccurances(before, lo, hi, occurances) ==
    MinOf({occurances} \cup {num_token_occurances(before, before[i + 1]) : i \in lo..(hi - 1)})

\* update_lcs, first inner loop: extend the common run backwards
ExtendBack(before, after, start1, start2, occurances) ==
    LET m == min(start1, start2)
    IN  Let(MinOf({j \in 0..m : j = m \/ before[start1 - j] # after[start2 - j]}),
            LAMBDA k :
                [s1 |-> start1 - k, s2 |-> start2 - k,
                 occ |-> MinOccurances(before, start1 - k, start1, occurances)])

\* update_lcs, second inner loop: extend the common run forwards
ExtendFwd(before, after, end1, end2, occurances) ==
    LET m == min(Len(before) - end1, Len(after) - end2)
    IN  Let(MinOf({j \in 0..m : j = m \/ before[end1 + j + 1] # after[end2 + j + 1]}),
            LAMBDA k :
                [e1 |-> end1 + k, e2 |-> end2 + k,
                 occ |-> MinOccurances(before, end1, end1 + k, occurances)])

\* update_lcs, last inner loop: the next occurrence past end2, if any
RECURSIVE SkipOccurances(_, _)
SkipOccurances(rest, end2) ==
    IF rest = <<>> THEN <<>>
    ELSE IF Head(rest) > end2 THEN rest
         ELSE SkipOccurances(Tail(rest), end2)

\* LcsSearch::update_lcs, the loop over the occurrences of `token` in before
RECURSIVE update_lcs(_, _, _, _, _, _)
update_lcs(search, before, after, after_pos, occs, next_token_idx2) ==
    LET token == after[after_pos + 1]
        token_idx1 == Head(occs)
        \* the run through (token_idx1, after_pos), as [s1, s2, e1, e2, occ]
        run == Let(ExtendBack(before, after, token_idx1, after_pos,
                              num_token_occurances(before, token)),
                   LAMBDA b :
                       Let(ExtendFwd(before, after, token_idx1 + 1, after_pos + 1, b.occ),
                           LAMBDA f : [s1 |-> b.s1, s2 |-> b.s2, e1 |-> f.e1,
                                       e2 |-> f.e2, occ |-> f.occ]))
        Step(r) ==
            LET nxt == IF next_token_idx2 < r.e2 THEN r.e2 ELSE next_token_idx2
                len == r.e2 - r.s2
                found == IF search.lcs.len < len \/ search.min_occurances > r.occ
                         THEN [search EXCEPT !.min_occurances = r.occ,
                                             !.lcs = [before_start |-> r.s1,
                                                      after_start |-> r.s2, len |-> len]]
                         ELSE search
            IN  Let(SkipOccurances(Tail(occs), r.e2),
                    LAMBDA rest :
                        IF rest = <<>> THEN [search |-> found, pos |-> nxt]
                        ELSE update_lcs(found, before, after, after_pos, rest, nxt))
    IN  Let(run, Step)

\* LcsSearch::run: tokens of after that do not occur in before only advance pos
RECURSIVE LcsSearchRun(_, _, _, _)
LcsSearchRun(search, before, after, pos) ==
    LET common == {p \in pos..(Len(after) - 1) :
                     num_token_occurances(before, after[p + 1]) # 0}
        At(p) ==
            LET token == after[p + 1]
                n == num_token_occurances(before, token)
                seen == [search EXCEPT !.found_cs = TRUE]
            IN  IF n <= search.min_occurances
                THEN Let(update_lcs(seen, before, after, p,
                                    token_occurances(before, token), p + 1),
                         LAMBDA u : LcsSearchRun(u.search, before, after, u.pos))
                ELSE LcsSearchRun(seen, before, after, p + 1)
    IN  Let(common, LAMBDA cs : IF cs = {} THEN search ELSE At(MinOf(cs)))

\* find_lcs: the Lcs found (len = 0 when the sides share no token)
find_lcs(before, after) ==
    LcsSearchRun([lcs |-> [before_start |-> 0, after_start |-> 0, len |-> 0],
                  min_occurances |-> MAX_CHAIN_LEN + 1, found_cs |-> FALSE],
                 before, after, 0).lcs

\* Histogram::run: the change regions, in order, of before against after
RECURSIVE HistogramRun(_, _, _, _)
HistogramRun(before, before_off, after, after_off) ==
    LET Split(lcs) ==
            LET before_end == lcs.before_start + lcs.len
                after_end == lcs.after_start + lcs.len
            IN  IF lcs.len = 0
                THEN << <<Range(before_off, before_off + Len(before)),
                          Range(after_off, after_off + Len(after))>> >>
                ELSE HistogramRun(Slice(before, 0, lcs.before_start), before_off,
                                  Slice(after, 0, lcs.after_start), after_off)
                     \o HistogramRun(Slice(before, before_end, Len(before)),
                                     before_off + before_end,
                                     Slice(after, after_end, Len(after)),
                                     after_off + after_end)
    IN  IF before = <<>>
        THEN IF after # <<>>
             THEN << <<Range(before_off, before_off),
                       Range(after_off, after_off + Len(after))>> >>
             ELSE <<>>
        ELSE IF after = <<>>
        THEN << <<Range(before_off, before_off + Len(before)),
                  Range(after_off, after_off)>> >>
        ELSE Let(find_lcs(before, after), Split)

\* histogram::diff up to the sink: the change regions reported for (before, after)
HistogramChanges(before, after) ==
    LET Stripped(prefix) ==
            LET before1 == Slice(before, prefix, Len(before))
                after1 == Slice(after, prefix, Len(after))
            IN  Let(common_postfix(before1, after1),
                    LAMBDA postfix :
                        HistogramRun(Slice(before1, 0, Len(before1) - postfix), prefix,
                                     Slice(after1, 0, Len(after1) - postfix), prefix))
    IN  Let(common_prefix(before, after), Stripped)

RECURSIVE FeedSink(_, _)
FeedSink(s, chs) ==
    IF chs = <<>> THEN s
    ELSE FeedSink(process_change(s, Head(chs)[1], Head(chs)[2]), Tail(chs))

\* diff(Algorithm::Histogram, &input, sink): every change through the sink, then finish
diff(a_slice, b_slice, s) == finish(FeedSink(s, HistogramChanges(a_slice, b_slice)))

----------------------------------------------------------------------------
(* StreamNextChunk (nextchunk.rs) *)

WindowDivisor == 15
MinWindowThreshold == 100
AWindowFactor == 3

\* StreamNextChunk::new (and py_new): the predictor built for a reference
new(a_slice) ==
    [a |-> a_slice,
     window_size |-> IF a_slice = <<>> THEN 0
                     ELSE max(1, Len(a_slice) \div WindowDivisor),
     min_window_threshold |-> MinWindowThreshold,
     a_window_factor |-> AWindowFactor]

\* Variant: the significance test of window_size is left out
ApplyWindowing_NoThreshold(self, b) ==
    /\ b # <<>>
    /\ self.window_size > 0
    /\ Len(b) >= self.window_size

\* _next_chunk, lines 74-77
ApplyWindowing(self, b) ==
    /\ b # <<>>
    /\ self.window_size > 0
    /\ self.window_size >= self.min_window_threshold
    /\ Len(b) >= self.window_size

\* Variant: the window of a is no wider than window_size, a_window_factor unused
SelectSlices_NarrowWindow(self, b) ==
    IF ApplyWindowing(self, b)
    THEN LET trim_len == Len(b) - self.window_size
             a_lower_bound == max(0, trim_len - self.window_size)
             a_upper_bound == min(Len(self.a), a_lower_bound + self.window_size)
             a_lower_bound_final == min(a_lower_bound, a_upper_bound)
         IN  [apply_windowing |-> TRUE,
              a_slice |-> Slice(self.a, a_lower_bound_final, a_upper_bound),
              b_slice |-> Slice(b, trim_len, Len(b)),
              a_slice_start_offset |-> a_lower_bound_final]
    ELSE [apply_windowing |-> FALSE,
          a_slice |-> self.a,
          b_slice |-> b,
          a_slice_start_offset |-> 0]

\* Variant: the lower bound of the window of a is not capped by its upper bound
SelectSlices_NoClamp(self, b) ==
    IF ApplyWindowing(self, b)
    THEN LET trim_len == Len(b) - self.window_size
             a_lower_bound == max(0, trim_len - self.window_size)
             a_upper_bound == min(Len(self.a),
                                  a_lower_bound + self.window_size * self.a_window_factor)
         IN  [apply_windowing |-> TRUE,
              a_slice |-> Slice(self.a, a_lower_bound, a_upper_bound),
              b_slice |-> Slice(b, trim_len, Len(b)),
              a_slice_start_offset |-> a_lower_bound]
    ELSE [apply_windowing |-> FALSE,
          a_slice |-> self.a,
          b_slice |-> b,
          a_slice_start_offset |-> 0]

\* _next_chunk, lines 83-109: the slices to diff and the offset of a_slice in a
SelectSlices(self, b) ==
    IF ApplyWindowing(self, b)
    THEN LET trim_len == Len(b) - self.window_size
             a_lower_bound == max(0, trim_len - self.window_size)
             a_upper_bound == min(Len(self.a),
                                  a_lower_bound + self.window_size * self.a_window_factor)
             a_lower_bound_final == min(a_lower_bound, a_upper_bound)
         IN  [apply_windowing |-> TRUE,
              a_slice |-> Slice(self.a, a_lower_bound_final, a_upper_bound),
              b_slice |-> Slice(b, trim_len, Len(b)),
              a_slice_start_offset |-> a_lower_bound_final]
    ELSE [apply_windowing |-> FALSE,
          a_slice |-> self.a,
          b_slice |-> b,
          a_slice_start_offset |-> 0]

\* Variant: nothing is predicted without an alignment
PredictStart_Empty(self, c) == <<>>

\* Variant: the start of a is returned without the chunk_size limit
PredictStart_Whole(self, c) == self.a

\* _next_chunk, lines 125-126, 129-130, 150-151: predict the start of a
PredictStart(self, c) == Slice(self.a, 0, min(c, Len(self.a)))

\* Variant: resumes at the start of the last matching block instead of its end
AfterLastMatch_FromStart(self, c, matches, b_len, a_slice_start_offset) ==
    LET last_match == matches[Len(matches)]
        offset == a_slice_start_offset + last_match[1].start
    IN  IF last_match[2].end # b_len THEN <<>>
        ELSE IF offset >= Len(self.a) THEN <<>>
        ELSE Slice(self.a, offset, min(offset + c, Len(self.a)))

\* Variant: a chunk shorter than chunk_size is not returned
AfterLastMatch_FullOnly(self, c, matches, b_len, a_slice_start_offset) ==
    LET last_match == matches[Len(matches)]
        offset == a_slice_start_offset + last_match[1].end
    IN  IF last_match[2].end # b_len THEN <<>>
        ELSE IF offset + c > Len(self.a) THEN <<>>
        ELSE Slice(self.a, offset, offset + c)

\* Variant: the end of the last block is not compared with the end of b_slice
AfterLastMatch_Unchecked(self, c, matches, b_len, a_slice_start_offset) ==
    LET last_match == matches[Len(matches)]
        offset == a_slice_start_offset + last_match[1].end
    IN  IF offset >= Len(self.a) THEN <<>>
        ELSE Slice(self.a, offset, min(offset + c, Len(self.a)))

\* Variant: the window-local end of the last block is used as an offset into a
AfterLastMatch_WindowLocal(self, c, matches, b_len, a_slice_start_offset) ==
    LET last_match == matches[Len(matches)]
        offset == last_match[1].end
    IN  IF last_match[2].end # b_len THEN <<>>
        ELSE IF offset >= Len(self.a) THEN <<>>
        ELSE Slice(self.a, offset, min(offset + c, Len(self.a)))

\* _next_chunk, lines 156-188: the chunk after the last matching block
AfterLastMatch(self, c, matches, b_len, a_slice_start_offset) ==
    LET last_match == matches[Len(matches)]
        current_matched == last_match[2].end = b_len
        unmatched_offset_in_original_a == a_slice_start_offset + last_match[1].end
        end_offset_in_original_a ==
            min(unmatched_offset_in_original_a + c, Len(self.a))
    IN  IF ~current_matched THEN <<>>
        ELSE IF unmatched_offset_in_original_a >= Len(self.a) THEN <<>>
        ELSE Slice(self.a, unmatched_offset_in_original_a, end_offset_in_original_a)

\* Variant: a miss inside a window also falls back to the start of a
NoMatch_AlwaysStart(self, c, apply_windowing) == PredictStart(self, c)

\* _next_chunk, lines 140-153: no matching block at all
NoMatch(self, c, apply_windowing) ==
    IF apply_windowing THEN <<>> ELSE PredictStart(self, c)

NoCall == [early |-> TRUE, apply_windowing |-> FALSE, a_slice |-> <<>>,
           b_slice |-> <<>>, a_len |-> 0, b_len |-> 0,
           a_slice_start_offset |-> 0, diffed |-> FALSE, panicked |-> FALSE,
           matches |-> <<>>, result |-> <<>>]

\* StreamNextChunk::_next_chunk: its locals and the slice it returns
_next_chunk(self, b, c) ==
    LET Diffing(w) ==
            LET a_len == Len(w.a_slice)
                b_len == Len(w.b_slice)
                sel == [early |-> FALSE, apply_windowing |-> w.apply_windowing,
                        a_slice |-> w.a_slice, b_slice |-> w.b_slice,
                        a_len |-> a_len, b_len |-> b_len,
                        a_slice_start_offset |-> w.a_slice_start_offset,
                        diffed |-> FALSE, panicked |-> FALSE, matches |-> <<>>,
                        result |-> <<>>]
                Process(out) ==
                    [sel EXCEPT
                       !.diffed = TRUE,
                       !.panicked = out.panicked,
                       !.matches = out.matches,
                       !.result =
                          IF out.matches = <<>>
                          THEN NoMatch(self, c, w.apply_windowing)
                          ELSE AfterLastMatch(self, c, out.matches, b_len,
                                              w.a_slice_start_offset)]
            IN  IF b_len = 0
                THEN [sel EXCEPT !.result = PredictStart(self, c)]
                ELSE Let(diff(w.a_slice, w.b_slice, MatchCollectorNew(a_len, b_len)),
                         Process)
    IN  IF self.a = <<>> \/ c = 0 THEN NoCall
        ELSE Let(SelectSlices(self, b), Diffing)

\* StreamNextChunk::next_chunk
next_chunk(self, b, c) == _next_chunk(self, b, c).result

----------------------------------------------------------------------------
(* Inputs *)

\* A reference long enough for new() to reach the windowing threshold:
\* window_size = len / 15 = 100; its tokens are pairwise distinct.
LongRef == [i \in 1..(WindowDivisor * MinWindowThreshold) |-> i]
Foreign == 0 - 1

References == SeqsUpTo(RefTokens, MaxRefLen) \cup {LongRef}

IsLong(ref) == Len(ref) > MaxRefLen

\* Observed buffers of a session on LongRef: a stretch lo..hi of the reference,
\* possibly followed by a token the reference does not hold, by the start of
\* the reference again, or made of foreign tokens only.
LongStarts == {0, 50}
LongEnds == {0, 99, 100, 101, 250, 1450, 1499, 1500}
LongTails == {<<>>, <<Foreign>>, <<Foreign, 1>>, Slice(LongRef, 0, 120),
              Slice(LongRef, 0, 250)}
LongObserved ==
    {Slice(LongRef, lo, hi) \o tail : lo \in LongStarts, hi \in LongEnds, tail \in LongTails}
    \cup {[i \in 1..n |-> Foreign] : n \in {100, 150}}
LongChunks == {0, 80, 700}

InitialObserved(ref) == IF IsLong(ref) THEN LongObserved ELSE {<<>>}
ChunkSizes(ref) == IF IsLong(ref) THEN LongChunks ELSE 0..MaxChunk

----------------------------------------------------------------------------
(* The caller: one predictor, one observed buffer, one chunk size *)

Self == [a |-> a, window_size |-> window_size,
         min_window_threshold |-> min_window_threshold,
         a_window_factor |-> a_window_factor]

Threads == {1, 2}
NoSlices == [apply_windowing |-> FALSE, a_slice |-> <<>>, b_slice |-> <<>>,
             a_slice_start_offset |-> 0]
ThreadOff == [pc |-> "off", b |-> <<>>, c |-> 0, w |-> NoSlices, matches |-> <<>>,
              result |-> <<>>]
NoThreads == [t \in Threads |-> ThreadOff]

InitPredictor(ref) ==
    /\ a = new(ref).a
    /\ window_size = new(ref).window_size
    /\ min_window_threshold = new(ref).min_window_threshold
    /\ a_window_factor = new(ref).a_window_factor

Init ==
    /\ \E ref \in References :
          /\ InitPredictor(ref)
          /\ current_b \in InitialObserved(ref)
          /\ chunk_size \in ChunkSizes(ref)
    /\ pc = "idle"
    /\ call = NoCall
    /\ next = <<>>
    /\ steps = 0
    /\ sink = MatchCollectorNew(0, 0)
    /\ changes = <<>>
    /\ sink_pc = "unused"
    /\ thr = NoThreads

\* let next = streamer.next_chunk(&current_b, chunk_size);
NextChunk ==
    /\ pc = "idle"
    /\ call' = _next_chunk(Self, current_b, chunk_size)
    /\ next' = call'.result
    /\ pc' = "returned"
    /\ UNCHANGED <<predictor, current_b, chunk_size, steps, sinkvars, thr>>

\* current_b.extend_from_slice(next): the predicted chunk is accepted whole
ExtendFromSlice ==
    /\ pc = "returned"
    /\ next # <<>>
    /\ Len(current_b) <= Len(a) + MaxObsLen
    /\ current_b' = current_b \o next
    /\ steps' = steps + 1
    /\ pc' = "idle"
    /\ UNCHANGED <<predictor, chunk_size, call, next, sinkvars, thr>>

\* The generator produced a token of its own: the caller advances by one
Push(token) ==
    /\ ~IsLong(a)
    /\ Len(current_b) < MaxObsLen
    /\ current_b' = Append(current_b, token)
    /\ steps' = 0
    /\ pc' = "idle"
    /\ call' = NoCall
    /\ next' = <<>>
    /\ UNCHANGED <<predictor, chunk_size, sinkvars, thr>>

Next ==
    \/ NextChunk
    \/ ExtendFromSlice
    \/ \E token \in ObsTokens : Push(token)

Spec == Init /\ [][Next]_vars

\* The append loop of test_stream_next_chunk alone: predict, append, repeat
NextLoop ==
    \/ NextChunk
    \/ ExtendFromSlice

SpecLoop == Init /\ [][NextLoop]_vars

----------------------------------------------------------------------------
(* Properties of next_chunk *)

IsPrefix(b, ref) == Len(b) <= Len(ref) /\ b = SubSeq(ref, 1, Len(b))
Ceil(n, d) == (n + d - 1) \div d
LastMatch == call.matches[Len(call.matches)]
Returned == pc = "returned"
\* a call that got past the degenerate-input return and ran the diff
Diffed == Returned /\ ~call.early /\ call.diffed

\* Soundness of the alignment as modelled: the collector never panics on the
\* diff's changes, and every matching block holds the same tokens on both sides,
\* in increasing order.
DiffIsSound ==
    Diffed =>
        LET a_slice == Slice(a, call.a_slice_start_offset,
                             call.a_slice_start_offset + call.a_len)
            b_slice == Slice(current_b, Len(current_b) - call.b_len, Len(current_b))
        IN  /\ ~call.panicked
            /\ \A i \in 1..Len(call.matches) :
                  LET m == call.matches[i]
                  IN  /\ m[1].start < m[1].end /\ m[1].end <= call.a_len
                      /\ m[2].start < m[2].end /\ m[2].end <= call.b_len
                      /\ Slice(a_slice, m[1].start, m[1].end)
                            = Slice(b_slice, m[2].start, m[2].end)
                      /\ i > 1 => /\ call.matches[i - 1][1].end <= m[1].start
                                  /\ call.matches[i - 1][2].end <= m[2].start

\* C1: prefix continuation.  For a non-empty reference, chunk_size > 0 and
\* observed = a[0..n], a call made without windowing returns exactly
\* a[n .. min(n + chunk_size, len(a))]: a short last chunk, empty at n = len(a).
C1_PrefixContinuation ==
    (/\ Returned
     /\ a # <<>>
     /\ chunk_size > 0
     /\ ~call.apply_windowing
     /\ IsPrefix(current_b, a))
    => next = Slice(a, Len(current_b), min(Len(current_b) + chunk_size, Len(a)))

\* a proper non-empty prefix of a reference with a repeated token, answered
\* by a last chunk shorter than chunk_size
C1_Witness ==
    /\ Returned
    /\ ~call.apply_windowing
    /\ IsPrefix(current_b, a)
    /\ current_b # <<>>
    /\ next # <<>>
    /\ Len(next) < chunk_size
    /\ ~IsLong(a)
    /\ \E i, j \in 1..Len(a) : i # j /\ a[i] = a[j]

\* the loop of C2 applies: windowing can never trigger, chunk_size is positive
LoopCase == window_size < min_window_threshold /\ chunk_size > 0
LoopDone == Returned /\ next = <<>>

\* C2: idempotent convergence.  From observed = [], appending each predicted
\* chunk, with chunk_size > 0 and no windowing possible: at most
\* ceil(len(a) / chunk_size) non-empty chunks are ever appended, the loop is
\* never stuck before a call returns empty, it ends only with observed = a, and
\* the call on observed = a returns empty.
C2_Convergence ==
    LoopCase =>
        /\ steps <= Ceil(Len(a), chunk_size)
        /\ LoopDone \/ pc = "idle" \/ ENABLED ExtendFromSlice
        /\ LoopDone => current_b = a
        /\ (Returned /\ current_b = a) => next = <<>>

\* a loop that ended on the whole reference after several chunks, the last short
C2_Witness ==
    /\ LoopCase
    /\ LoopDone
    /\ current_b = a
    /\ steps >= 2
    /\ steps = Ceil(Len(a), chunk_size)
    /\ Len(a) % chunk_size # 0

\* C3: unconfident tail.  With a non-empty reference, chunk_size > 0 and a
\* non-empty observed sequence, when the last matching block does not end at
\* the end of the diffed observed window, the call returns empty.
C3_UnconfidentTail ==
    (/\ Diffed
     /\ call.matches # <<>>
     /\ LastMatch[2].end # call.b_len)
    => next = <<>>

\* observed runs past its last matching block while reference tokens remain
\* after that block
C3_Witness ==
    /\ Diffed
    /\ call.matches # <<>>
    /\ LastMatch[2].end # call.b_len
    /\ call.a_slice_start_offset + LastMatch[1].end < Len(a)
    /\ next = <<>>

\* C4: no-match policy.  With a non-empty reference, chunk_size > 0 and a
\* non-empty diffed observed window, an alignment without any matching block
\* returns empty when windowing was active and the first
\* min(chunk_size, len(a)) tokens of the reference when it was not.
C4_NoMatchPolicy ==
    (Diffed /\ call.matches = <<>>)
    => next = IF call.apply_windowing THEN <<>>
              ELSE Slice(a, 0, min(chunk_size, Len(a)))

\* a window without any match: empty, although the reference has a start to offer
C4_Witness ==
    /\ Diffed
    /\ call.matches = <<>>
    /\ call.apply_windowing
    /\ next = <<>>

\* C5: reference-global resume offset.  With windowing active and the last
\* matching block ending at len(b_slice), the chunk is
\* a[resume .. min(resume + chunk_size, len(a))] for
\* resume = a_slice_start_offset + range_in_a.end, empty when resume >= len(a).
C5_GlobalResumeOffset ==
    (/\ Diffed
     /\ call.apply_windowing
     /\ call.matches # <<>>
     /\ LastMatch[2].end = call.b_len)
    => LET resume == call.a_slice_start_offset + LastMatch[1].end
       IN  next = IF resume >= Len(a) THEN <<>>
                  ELSE Slice(a, resume, min(resume + chunk_size, Len(a)))

\* a window that starts inside the reference: the chunk returned is not the one
\* at the window-local offset
C5_Witness ==
    /\ Diffed
    /\ call.apply_windowing
    /\ call.a_slice_start_offset > 0
    /\ call.matches # <<>>
    /\ LastMatch[2].end = call.b_len
    /\ next # <<>>
    /\ next # Slice(a, LastMatch[1].end, min(LastMatch[1].end + chunk_size, Len(a)))

\* C6: degenerate inputs fall back, never fail.  An empty reference or
\* chunk_size = 0 returns empty whatever was observed; a non-empty reference with
\* chunk_size > 0 and nothing observed returns a[0 .. min(chunk_size, len(a))].
C6_DegenerateInputs ==
    Returned =>
        /\ ~call.panicked
        /\ (a = <<>> \/ chunk_size = 0) => next = <<>>
        /\ (a # <<>> /\ chunk_size > 0 /\ current_b = <<>>)
              => next = Slice(a, 0, min(chunk_size, Len(a)))

\* nothing observed, and the reference is shorter than the chunk asked for
C6_Witness ==
    /\ Returned
    /\ a # <<>>
    /\ current_b = <<>>
    /\ chunk_size > Len(a)
    /\ next = a

\* lines 74-77 as the spec states them, over the predictor's fields
ActivationCondition ==
    /\ current_b # <<>>
    /\ window_size > 0
    /\ window_size >= min_window_threshold
    /\ Len(current_b) >= window_size

\* C7: windowing activation boundary.  A call that reaches the windowing
\* decision windows exactly when observed is non-empty, window_size > 0,
\* window_size >= min_window_threshold and len(observed) >= window_size; a
\* predictor from new() on a reference shorter than 15 * 100 tokens has
\* window_size = max(1, len / 15) < 100 and never windows; and without
\* windowing the full reference and the full observed sequence are the slices
\* diffed, at offset 0.
C7_ActivationBoundary ==
    (Returned /\ ~call.early) =>
        /\ call.apply_windowing <=> ActivationCondition
        /\ window_size = max(1, Len(a) \div WindowDivisor)
        /\ Len(a) < WindowDivisor * MinWindowThreshold
              => window_size < min_window_threshold /\ ~call.apply_windowing
        /\ ~call.apply_windowing
              => /\ call.a_len = Len(a)
                 /\ call.b_len = Len(current_b)
                 /\ call.a_slice_start_offset = 0

\* observed longer than window_size = 1, yet below the threshold: the full
\* sequences were diffed
C7_Witness ==
    /\ Returned
    /\ ~call.early
    /\ window_size < min_window_threshold
    /\ Len(current_b) > window_size
    /\ ~call.apply_windowing
    /\ call.diffed
    /\ call.b_len = Len(current_b)

\* C8: result shape.  Whatever the reference, window configuration, observed
\* sequence and chunk_size, the value returned is a[i..j] with
\* 0 <= i <= j <= len(a) and j - i <= chunk_size, and a non-empty result has
\* j = min(i + chunk_size, len(a)).
C8_ResultShape ==
    Returned =>
        \/ next = <<>>
        \/ /\ Len(next) <= Len(a)
           /\ \E i \in {k \in 0..(Len(a) - Len(next)) : a[k + 1] = next[1]} :
                 LET j == i + Len(next)
                 IN  /\ next = Slice(a, i, j)
                     /\ j - i <= chunk_size
                     /\ j = min(i + chunk_size, Len(a))

\* a chunk cut by chunk_size from the middle of the reference
C8_Witness ==
    /\ Returned
    /\ chunk_size > 0
    /\ Len(next) = chunk_size
    /\ Len(current_b) > 0
    /\ Len(current_b) + chunk_size < Len(a)
    /\ next = Slice(a, Len(current_b), Len(current_b) + chunk_size)
    /\ next # Slice(a, 0, chunk_size)

----------------------------------------------------------------------------
(* A MatchCollector on its own, fed any chronological stream of changes *)

InitSink ==
    /\ InitPredictor(<<>>)
    /\ current_b = <<>>
    /\ chunk_size = 0
    /\ pc = "idle"
    /\ call = NoCall
    /\ next = <<>>
    /\ steps = 0
    /\ \E total_a_len \in 0..MaxSide, total_b_len \in 0..MaxSide :
          sink = MatchCollectorNew(total_a_len, total_b_len)
    /\ changes = <<>>
    /\ sink_pc = "collecting"
    /\ thr = NoThreads

\* sink.process_change(before, after): the next change region, not before the
\* end of the last one and inside both sides
ProcessChange(before, after) ==
    /\ sink_pc = "collecting"
    /\ sink.last_a <= before.start /\ before.start <= before.end
    /\ before.end <= sink.total_a_len
    /\ sink.last_b <= after.start /\ after.start <= after.end
    /\ after.end <= sink.total_b_len
    /\ ~RangeIsEmpty(before) \/ ~RangeIsEmpty(after)
    /\ sink' = process_change(sink, before, after)
    /\ changes' = Append(changes, <<before, after>>)
    /\ sink_pc' = IF sink'.panicked THEN "panicked in process_change" ELSE "collecting"
    /\ UNCHANGED <<predictor, callervars, thr>>

\* sink.finish()
Finish ==
    /\ sink_pc = "collecting"
    /\ sink' = finish(sink)
    /\ sink_pc' = IF sink'.panicked THEN "panicked in finish" ELSE "finished"
    /\ UNCHANGED <<predictor, callervars, changes, thr>>

Ranges(n) == {Range(s, e) : s \in 0..n, e \in 0..n}

NextSink ==
    \/ \E before \in Ranges(MaxSide), after \in Ranges(MaxSide) :
          ProcessChange(before, after)
    \/ Finish

SpecSink == InitSink /\ [][NextSink]_vars

\* The gap in front of the i-th change of a stream, from the stream alone
GapBefore(chs, i) ==
    <<Range(IF i = 1 THEN 0 ELSE chs[i - 1][1].end, chs[i][1].start),
      Range(IF i = 1 THEN 0 ELSE chs[i - 1][2].end, chs[i][2].start)>>

\* The gap after the last change of a stream, up to the ends of both sides
TrailingGap(chs, total_a_len, total_b_len) ==
    <<Range(IF chs = <<>> THEN 0 ELSE chs[Len(chs)][1].end, total_a_len),
      Range(IF chs = <<>> THEN 0 ELSE chs[Len(chs)][2].end, total_b_len)>>

GapIsEmpty(g) == RangeIsEmpty(g[1]) /\ RangeIsEmpty(g[2])
GapIsEqual(g) == RangeLen(g[1]) = RangeLen(g[2])

\* Every gap of the stream in order, with the trailing gap once closed
Gaps(closed) ==
    [i \in 1..Len(changes) |-> GapBefore(changes, i)]
    \o (IF closed
        THEN <<TrailingGap(changes, sink.total_a_len, sink.total_b_len)>>
        ELSE <<>>)

NonEmptyGaps(closed) == SelectSeq(Gaps(closed), LAMBDA g : ~GapIsEmpty(g))
AllEqual(gs) == \A i \in 1..Len(gs) : GapIsEqual(gs[i])

\* C9: Match Extractor.  For any chronological stream of disjoint change
\* regions, the blocks emitted are exactly, in order, the non-empty gaps before
\* each change and then the non-empty trailing gap; every emitted block has
\* equal length on both sides; and the collector aborts exactly at the first
\* gap whose two sides differ in length, which is neither emitted nor skipped.
C9_MatchExtractor ==
    /\ sink_pc = "collecting"
          => AllEqual(Gaps(FALSE)) /\ sink.matches = NonEmptyGaps(FALSE)
    /\ sink_pc = "finished"
          => AllEqual(Gaps(TRUE)) /\ sink.matches = NonEmptyGaps(TRUE)
    /\ sink_pc = "panicked in process_change"
          => /\ ~GapIsEqual(GapBefore(changes, Len(changes)))
             /\ AllEqual(SubSeq(Gaps(FALSE), 1, Len(changes) - 1))
    /\ sink_pc = "panicked in finish"
          => /\ AllEqual(Gaps(FALSE))
             /\ ~GapIsEqual(TrailingGap(changes, sink.total_a_len, sink.total_b_len))
    /\ sink_pc \in {"collecting", "finished"}
          => \A i \in 1..Len(sink.matches) :
                /\ RangeLen(sink.matches[i][1]) = RangeLen(sink.matches[i][2])
                /\ RangeLen(sink.matches[i][1]) > 0

\* two changes and a trailing gap, with a block emitted before the second
\* change and another after it
C9_Witness ==
    /\ sink_pc = "finished"
    /\ Len(changes) = 2
    /\ Len(sink.matches) = 2
    /\ GapIsEmpty(GapBefore(changes, 1))
    /\ sink.matches[2] = TrailingGap(changes, sink.total_a_len, sink.total_b_len)

----------------------------------------------------------------------------
(* Two threads calling next_chunk(&self, ..) on one predictor, each with its  *)
(* own observed buffer; a call is three steps that each read the predictor.   *)

ConcTokens == {1, Foreign}
ConcReferences == SeqsUpTo(RefTokens, MaxConcLen) \cup {LongRef}
ConcObserved(ref) ==
    IF IsLong(ref)
    THEN {Slice(LongRef, 0, 250), Slice(LongRef, 0, 100) \o <<Foreign>>}
    ELSE SeqsUpTo(ConcTokens, MaxConcLen)
ConcChunks == {1, 2}

InitConc ==
    /\ \E ref \in ConcReferences : InitPredictor(ref)
    /\ current_b = <<>>
    /\ chunk_size = 0
    /\ pc = "idle"
    /\ call = NoCall
    /\ next = <<>>
    /\ steps = 0
    /\ sink = MatchCollectorNew(0, 0)
    /\ changes = <<>>
    /\ sink_pc = "unused"
    /\ thr = NoThreads

\* a thread enters next_chunk(&self, current_b, chunk_size)
TBegin(t, b, c) ==
    /\ thr[t].pc \in {"off", "done"}
    /\ thr' = [thr EXCEPT ![t] = [ThreadOff EXCEPT !.pc = "entered", !.b = b, !.c = c]]
    /\ UNCHANGED <<predictor, callervars, sinkvars>>

\* Variant: the window is adapted to the observed sequence of the call
TSelect_Adaptive(t) ==
    /\ thr[t].pc = "entered"
    /\ IF a = <<>> \/ thr[t].c = 0
       THEN thr' = [thr EXCEPT ![t].pc = "done", ![t].result = <<>>]
       ELSE thr' = [thr EXCEPT ![t].pc = "selected",
                               ![t].w = SelectSlices(Self, thr[t].b)]
    /\ window_size' = max(window_size, Len(thr[t].b))
    /\ UNCHANGED <<a, min_window_threshold, a_window_factor, callervars, sinkvars>>

\* _next_chunk, lines 69-109: the early return, else the slices to diff
TSelect(t) ==
    /\ thr[t].pc = "entered"
    /\ IF a = <<>> \/ thr[t].c = 0
       THEN thr' = [thr EXCEPT ![t].pc = "done", ![t].result = <<>>]
       ELSE thr' = [thr EXCEPT ![t].pc = "selected",
                               ![t].w = SelectSlices(Self, thr[t].b)]
    /\ UNCHANGED <<predictor, callervars, sinkvars>>

\* _next_chunk, lines 112-137: predict the start on an empty b_slice, else diff
TDiff(t) ==
    /\ thr[t].pc = "selected"
    /\ LET w == thr[t].w
       IN  IF Len(w.b_slice) = 0
           THEN thr' = [thr EXCEPT ![t].pc = "done",
                                   ![t].result = PredictStart(Self, thr[t].c)]
           ELSE thr' = [thr EXCEPT
                          ![t].pc = "diffed",
                          ![t].matches =
                             diff(w.a_slice, w.b_slice,
                                  MatchCollectorNew(Len(w.a_slice), Len(w.b_slice))).matches]
    /\ UNCHANGED <<predictor, callervars, sinkvars>>

\* _next_chunk, lines 139-188: the chunk from the matching blocks
TProcess(t) ==
    /\ thr[t].pc = "diffed"
    /\ LET w == thr[t].w
       IN  thr' = [thr EXCEPT
                     ![t].pc = "done",
                     ![t].result =
                        IF thr[t].matches = <<>>
                        THEN NoMatch(Self, thr[t].c, w.apply_windowing)
                        ELSE AfterLastMatch(Self, thr[t].c, thr[t].matches,
                                            Len(w.b_slice), w.a_slice_start_offset)]
    /\ UNCHANGED <<predictor, callervars, sinkvars>>

NextConc ==
    \E t \in Threads :
        \/ \E b \in ConcObserved(a), c \in ConcChunks : TBegin(t, b, c)
        \/ TSelect(t)
        \/ TDiff(t)
        \/ TProcess(t)

SpecConc == InitConc /\ [][NextConc]_vars

\* C10: call independence.  No step of a call changes the reference or the
\* window configuration; a call interleaved in any way with another thread's
\* call returns what the same call returns executed alone; and two calls with
\* identical (observed, chunk_size) return identical results.
C10_CallIndependence ==
    /\ [][UNCHANGED predictor]_vars
    /\ [](\A t \in Threads :
            thr[t].pc = "done" => thr[t].result = next_chunk(Self, thr[t].b, thr[t].c))
    /\ [](\A t, u \in Threads :
            (/\ thr[t].pc = "done" /\ thr[u].pc = "done"
             /\ thr[t].b = thr[u].b /\ thr[t].c = thr[u].c)
            => thr[t].result = thr[u].result)

\* one thread has returned a chunk while the other, on a different observed
\* buffer, is between its diff and its result
C10_Witness ==
    /\ thr[1].pc = "done"
    /\ thr[1].result # <<>>
    /\ thr[2].pc = "diffed"
    /\ thr[2].b # thr[1].b
    /\ thr[2].matches # <<>>

----------------------------------------------------------------------------
(* Properties of the window *)

\* C11: window geometry.  In every call where windowing is active, whatever the
\* length of observed (also far beyond the reference), b_slice is exactly the
\* last window_size tokens of observed and is non-empty; a_slice is
\* a[a_slice_start_offset .. a_upper_bound] with
\* 0 <= a_slice_start_offset <= a_upper_bound <= len(a) and at most
\* window_size * a_window_factor tokens.  So the branch for a b_slice trimmed
\* to empty is never taken: b_slice is empty only when observed is empty.
C11_WindowGeometry ==
    (Returned /\ ~call.early) =>
        /\ call.apply_windowing =>
              LET a_upper_bound == call.a_slice_start_offset + call.a_len
              IN  /\ call.b_slice = Slice(current_b, Len(current_b) - window_size,
                                          Len(current_b))
                  /\ call.b_len = window_size
                  /\ call.b_len > 0
                  /\ 0 <= call.a_slice_start_offset
                  /\ call.a_slice_start_offset <= a_upper_bound
                  /\ a_upper_bound <= Len(a)
                  /\ call.a_len <= window_size * a_window_factor
                  /\ call.a_slice = Slice(a, call.a_slice_start_offset, a_upper_bound)
        /\ call.b_len = 0 => current_b = <<>> /\ ~call.apply_windowing
        /\ ~call.diffed <=> current_b = <<>>

\* observed so much longer than the reference that the window of a would start
\* past its end: the window is empty, at offset len(a), and b_slice is not
C11_Witness ==
    /\ Returned
    /\ call.apply_windowing
    /\ Len(current_b) - 2 * window_size > Len(a)
    /\ call.a_slice_start_offset = Len(a)
    /\ call.a_len = 0
    /\ call.b_len = window_size
    /\ call.diffed

\* the tokens of ref are pairwise distinct
Distinct(ref) == Cardinality({ref[i] : i \in 1..Len(ref)}) = Len(ref)

\* the same predictor taking lines 104-109 on every call: its threshold is out
\* of reach of its window_size
WithoutWindowing(self) ==
    [self EXCEPT !.min_window_threshold = self.window_size + 1]

\* the chunk of a that follows its first n tokens
Continuation(n) == Slice(a, n, min(n + chunk_size, Len(a)))

\* C12: windowed and full diff agree on prefixes.  For a reference of pairwise
\* distinct tokens and observed = a[0..n] with window_size <= n <= len(a), a
\* call with windowing active returns a[n .. min(n + chunk_size, len(a))], the
\* chunk the same call returns from the full diff.  Hence the append loop on
\* such a reference keeps observed a prefix of a through the activation of
\* windowing, is never stuck before a call returns empty, and ends only with
\* observed = a.
C12_WindowedPrefixAgreement ==
    (/\ chunk_size > 0
     /\ window_size >= min_window_threshold
     /\ IsPrefix(current_b, a)
     /\ Distinct(a))
    => /\ (Returned /\ call.apply_windowing)
            => /\ window_size <= Len(current_b)
               /\ next = Continuation(Len(current_b))
               /\ next = next_chunk(WithoutWindowing(Self), current_b, chunk_size)
       /\ Returned => next = Continuation(Len(current_b))
       /\ steps <= Ceil(Len(a), chunk_size)
       /\ LoopDone \/ pc = "idle" \/ ENABLED ExtendFromSlice
       /\ LoopDone => current_b = a

\* the loop went through windowed calls, on windows that start inside the
\* reference, and ended with the whole reference observed
C12_Witness ==
    /\ Returned
    /\ call.apply_windowing
    /\ call.a_slice_start_offset > 0
    /\ steps >= 2
    /\ Len(current_b) - steps * chunk_size >= window_size
    /\ current_b = a
    /\ Distinct(a)
    /\ next = <<>>

====
